---- MODULE Spec2Model ----
(***************************************************************************)
(* A model of the Clown class of src/main.js: the parameter store          *)
(* (_setOptions), the scene-graph builders (_createClown and the builders  *)
(* it calls) and the rebuild-and-replace operation redraw.                 *)
(*                                                                         *)
(* JavaScript objects are functions from property names to values; a       *)
(* property that was never set is a name outside the function's DOMAIN.    *)
(* Numbers are fixed-point integers in thousandths (10 is 10000, 1.25 is   *)
(* 1250, an angle is in milliradians).  Three reserved integers stand for  *)
(* the JavaScript values undefined, NaN and a value that is no number      *)
(* (a Symbol), on which arithmetic throws a TypeError.                     *)
(***************************************************************************)
EXTENDS Integers, Sequences, FiniteSets, TLC

VARIABLES
  this,    \* the Clown object: children, _options, _clown (own properties)
  heap,    \* the Object3D sub-trees _createClown has allocated, by allocation number
  call,    \* the last call made on the clown: operation, arguments, outcome
  pre,     \* the clown object and the last call, as they were when that call started
  screen,  \* what the last render pass drew of the clown
  mem      \* the records in memory: the objects by address, the address of
           \* this._options and the address of the record the caller holds

vars == <<this, heap, call, pre, screen, mem>>

\* The number of calls (the constructor's redraw included) a behaviour makes.
MaxCalls == 3

----------------------------------------------------------------------------
(* JavaScript values *)

Undefined == -1000001
NaN == -1000002
Sym == -1000003

IsNum(v) == v \notin {Undefined, NaN, Sym}

EmptyObj == [k \in {} |-> 0]

Has(o, k) == k \in DOMAIN o

\* o.k for a numeric property: undefined when o has no such property
Prop(o, k) == IF Has(o, k) THEN o[k] ELSE Undefined

\* o.k where an object is expected and then spread or destructured
ObjProp(o, k) == IF Has(o, k) THEN o[k] ELSE EmptyObj

\* the object o with o.k = v assigned
Assign(o, k, v) == [j \in DOMAIN o \cup {k} |-> IF j = k THEN v ELSE o[j]]

\* the object literal {...a, ...b}
Spread(a, b) == [k \in DOMAIN a \cup DOMAIN b |-> IF Has(b, k) THEN b[k] ELSE a[k]]

(* Arithmetic on numbers in thousandths; undefined and NaN give NaN. *)
Plus(a, b) == IF IsNum(a) /\ IsNum(b) THEN a + b ELSE NaN
Minus(a, b) == IF IsNum(a) /\ IsNum(b) THEN a - b ELSE NaN
Neg(a) == IF IsNum(a) THEN 0 - a ELSE NaN
Times(a, b) ==
  IF IsNum(a) /\ IsNum(b)
  THEN LET p == a * b IN IF p >= 0 THEN p \div 1000 ELSE 0 - ((0 - p) \div 1000)
  ELSE NaN
\* a / n for a whole number n > 0
Over(a, n) ==
  IF IsNum(a) THEN (IF a >= 0 THEN a \div n ELSE 0 - ((0 - a) \div n)) ELSE NaN

PI == 3142

----------------------------------------------------------------------------
(* The parameter store *)

ArmFields == {"rotX", "rotY", "rotZ"}
HeadFields == {"scaleX", "scaleY", "scaleZ", "rotX", "rotY", "rotZ"}
Sections == {"arms", "legs", "body", "head"}

\* defaults whose right arm is raised to the same side as the left arm
DefaultOptions_sameSign ==
  [arms |-> [length |-> 10000,
             leftArm |-> [rotX |-> 0, rotY |-> 0, rotZ |-> Over(PI, 6)],
             rightArm |-> [rotX |-> 0, rotY |-> 0, rotZ |-> Over(PI, 6)]],
   legs |-> [length |-> 10000],
   body |-> [radius |-> 6000, stretchY |-> 1250],
   head |-> [scaleX |-> 1000, scaleY |-> 1000, scaleZ |-> 1000,
             rotX |-> 0, rotY |-> 0, rotZ |-> 0]]

\* the default options _setOptions creates when the clown has none
DefaultOptions ==
  [arms |-> [length |-> 10000,
             leftArm |-> [rotX |-> 0, rotY |-> 0, rotZ |-> Over(PI, 6)],
             rightArm |-> [rotX |-> 0, rotY |-> 0, rotZ |-> Over(Neg(PI), 6)]],
   legs |-> [length |-> 10000],
   body |-> [radius |-> 6000, stretchY |-> 1250],
   head |-> [scaleX |-> 1000, scaleY |-> 1000, scaleZ |-> 1000,
             rotX |-> 0, rotY |-> 0, rotZ |-> 0]]

\* options reset to the defaults on every call
InitOptions_always(self) == DefaultOptions

\* if (!this._options) this._options = {defaults}
InitOptions(self) ==
  IF Has(self, "_options") THEN self._options ELSE DefaultOptions

\* a merge of the arms that does not recurse into the two arm records
MergeArms_shallow(cur, arms) == Spread(cur, arms)

\* a merge of the arms that starts each arm from the other arm's current record
MergeArms_swapped(cur, arms) ==
  Spread(Spread(cur, arms),
         [leftArm |-> Spread(ObjProp(cur, "rightArm"), ObjProp(arms, "leftArm")),
          rightArm |-> Spread(ObjProp(cur, "leftArm"), ObjProp(arms, "rightArm"))])

\* a merge of the arms whose left arm starts from the current right arm
MergeArms_crossed(cur, arms) ==
  Spread(Spread(cur, arms),
         [leftArm |-> Spread(ObjProp(cur, "rightArm"), ObjProp(arms, "leftArm")),
          rightArm |-> Spread(ObjProp(cur, "rightArm"), ObjProp(arms, "rightArm"))])

\* the arms object literal of _setOptions
MergeArms(cur, arms) ==
  Spread(Spread(cur, arms),
         [leftArm |-> Spread(ObjProp(cur, "leftArm"), ObjProp(arms, "leftArm")),
          rightArm |-> Spread(ObjProp(cur, "rightArm"), ObjProp(arms, "rightArm"))])

\* a section replaced by the record given, not merged with it
MergeSection_replace(cur, part) == part

\* the legs, body and head object literals of _setOptions
MergeSection(cur, part) == Spread(cur, part)

\* this._options after _setOptions(options)
_setOptions(self, options) ==
  LET o0 == InitOptions(self)
      o1 == IF Has(options, "arms")
            THEN Assign(o0, "arms", MergeArms(o0.arms, options.arms)) ELSE o0
      o2 == IF Has(options, "legs")
            THEN Assign(o1, "legs", MergeSection(o1.legs, options.legs)) ELSE o1
      o3 == IF Has(options, "body")
            THEN Assign(o2, "body", MergeSection(o2.body, options.body)) ELSE o2
      o4 == IF Has(options, "head")
            THEN Assign(o3, "head", MergeSection(o3.head, options.head)) ELSE o3
  IN  o4

----------------------------------------------------------------------------
(* Scene-graph nodes.  A node's id is the number of the build that         *)
(* allocated it and its place in that build; every `new` of one build      *)
(* gets a different place.                                                 *)

NodeId(b, path) == [build |-> b, path |-> path]

\* new THREE.Object3D(), with the children added to it
Object3D(b, path, kids) ==
  [id |-> NodeId(b, path), type |-> "Object3D",
   geometry |-> [shape |-> "none", args |-> <<>>], color |-> "none",
   position |-> <<0, 0, 0>>, rotation |-> <<0, 0, 0>>,
   scale |-> <<1000, 1000, 1000>>, children |-> kids]

\* new THREE.Mesh(new THREE.<shape>Geometry(args), new THREE.MeshBasicMaterial({color}))
Mesh(b, path, shape, args, color) ==
  [id |-> NodeId(b, path), type |-> "Mesh",
   geometry |-> [shape |-> shape, args |-> args], color |-> color,
   position |-> <<0, 0, 0>>, rotation |-> <<0, 0, 0>>,
   scale |-> <<1000, 1000, 1000>>, children |-> <<>>]

\* node.position.set(x, y, z), node.rotation.set(x, y, z), node.scale.set(x, y, z)
SetPosition(node, x, y, z) == [node EXCEPT !.position = <<x, y, z>>]
SetRotation(node, x, y, z) == [node EXCEPT !.rotation = <<x, y, z>>]
SetScale(node, x, y, z) == [node EXCEPT !.scale = <<x, y, z>>]
\* node.scale.y = v
SetScaleY(node, v) == [node EXCEPT !.scale[2] = v]

CosQuarterPi == 707
SinQuarterPi == 707

----------------------------------------------------------------------------
(* The builders *)

_createHat(b, path) ==
  LET hatRimMesh == Mesh(b, path \o <<"hatRim">>, "Cylinder",
                         <<8000, 8000, 500, 32, 32>>, "00a9fe")
      hatTopMesh == SetPosition(
                      Mesh(b, path \o <<"hatTop">>, "Cylinder",
                           <<5000, 4500, 6000, 32, 32>>, "00a9fe"),
                      0, 3000, 0)
  IN  Object3D(b, path, <<hatRimMesh, hatTopMesh>>)

_createHead(headOptions, b, path) ==
  LET domeMesh == SetPosition(
                    Mesh(b, path \o <<"dome">>, "Sphere", <<5000, 32, 32>>, "b8fee4"),
                    0, 5000, 0)
      leftEarMesh == SetPosition(
                       Mesh(b, path \o <<"leftEar">>, "Sphere", <<1500, 32, 32>>, "45266a"),
                       -5000, 5000, 0)
      rightEarMesh == SetPosition(
                        Mesh(b, path \o <<"rightEar">>, "Sphere", <<1500, 32, 32>>, "45266a"),
                        5000, 5000, 0)
      leftEyeMesh == SetPosition(
                       Mesh(b, path \o <<"leftEye">>, "Sphere", <<500, 32, 32>>, "45266a"),
                       -1500, 5000, 4750)
      rightEyeMesh == SetPosition(
                        Mesh(b, path \o <<"rightEye">>, "Sphere", <<500, 32, 32>>, "45266a"),
                        1500, 5000, 4750)
      noseMesh == SetPosition(
                    Mesh(b, path \o <<"nose">>, "Sphere", <<300>>, "45266a"),
                    0, 4250, 4850)
      smileMesh == SetPosition(
                     SetRotation(
                       Mesh(b, path \o <<"smile">>, "Torus",
                            <<2500, 250, 32, 32, Over(PI, 3)>>, "ff9fe8"),
                       0, 0, Over(Times(Neg(PI), 100000), 165)),
                     0, 5250, 4250)
      hat == SetPosition(
               SetRotation(_createHat(b, path \o <<"hat">>),
                           Over(Neg(PI), 12), 0, Over(Neg(PI), 12)),
               500, 7500, -500)
      head == Object3D(b, path,
                       <<domeMesh, leftEarMesh, rightEarMesh, leftEyeMesh,
                         rightEyeMesh, noseMesh, smileMesh, hat>>)
  IN  SetScale(head, Prop(headOptions, "scaleX"), Prop(headOptions, "scaleY"),
               Prop(headOptions, "scaleZ"))

_createArm(length, b, path) ==
  LET shoulderMesh == Mesh(b, path \o <<"shoulder">>, "Sphere", <<2000>>, "f030d9")
      limbMesh == SetPosition(
                    Mesh(b, path \o <<"limb">>, "Cylinder", <<900, 900, length>>, "00a9fe"),
                    0, Over(Neg(length), 2), 0)
      handMesh == SetPosition(
                    Mesh(b, path \o <<"hand">>, "Sphere", <<1500>>, "19efb3"),
                    0, Minus(750, length), 0)
  IN  Object3D(b, path, <<shoulderMesh, limbMesh, handMesh>>)

\* a leg whose foot is put at the middle of the limb
_createLeg_footMidway(length, b, path) ==
  LET limbMesh == SetPosition(
                    Mesh(b, path \o <<"limb">>, "Cylinder", <<800, 800, length>>, "f030d9"),
                    0, Over(Neg(length), 2), 0)
      footMesh == SetPosition(
                    Mesh(b, path \o <<"foot">>, "Sphere",
                         <<2000, 8, 6, 0, Times(PI, 2000), 0, Over(PI, 2)>>, "19efb3"),
                    0, Over(Neg(length), 2), 0)
      footBottomMesh == SetPosition(
                          SetRotation(
                            Mesh(b, path \o <<"footBottom">>, "Circle", <<2000>>, "19efb3"),
                            Over(PI, 2), 0, 0),
                          0, Minus(Neg(length), 1), 0)
  IN  Object3D(b, path, <<limbMesh, footMesh, footBottomMesh>>)

_createLeg(length, b, path) ==
  LET limbMesh == SetPosition(
                    Mesh(b, path \o <<"limb">>, "Cylinder", <<800, 800, length>>, "f030d9"),
                    0, Over(Neg(length), 2), 0)
      footMesh == SetPosition(
                    Mesh(b, path \o <<"foot">>, "Sphere",
                         <<2000, 8, 6, 0, Times(PI, 2000), 0, Over(PI, 2)>>, "19efb3"),
                    0, Neg(length), 0)
      footBottomMesh == SetPosition(
                          SetRotation(
                            Mesh(b, path \o <<"footBottom">>, "Circle", <<2000>>, "19efb3"),
                            Over(PI, 2), 0, 0),
                          0, Minus(Neg(length), 1), 0)
  IN  Object3D(b, path, <<limbMesh, footMesh, footBottomMesh>>)

\* a body whose right arm is put at the left shoulder
_createBody_rightAtLeft(bodyOptions, armOptions, legOptions, b, path) ==
  LET radius == Prop(bodyOptions, "radius")
      stretchY == Prop(bodyOptions, "stretchY")
      bodyOffset == Times(radius, stretchY)
      legLength == Prop(legOptions, "length")
      torsoMesh == SetPosition(
                     SetScaleY(
                       Mesh(b, path \o <<"torso">>, "Sphere", <<radius, 32, 32>>, "00a9fe"),
                       stretchY),
                     0, Minus(Plus(legLength, bodyOffset), 1000), 0)
      xShoulder == Times(CosQuarterPi, radius)
      yShoulder == Plus(Plus(Times(Times(SinQuarterPi, radius), stretchY), legLength),
                        bodyOffset)
      armLength == Prop(armOptions, "length")
      l == ObjProp(armOptions, "leftArm")
      leftArm == SetRotation(
                   SetPosition(_createArm(armLength, b, path \o <<"leftArm">>),
                               xShoulder, yShoulder, 0),
                   Prop(l, "rotX"), Prop(l, "rotY"), Prop(l, "rotZ"))
      r == ObjProp(armOptions, "rightArm")
      rightArm == SetRotation(
                    SetPosition(_createArm(armLength, b, path \o <<"rightArm">>),
                                xShoulder, yShoulder, 0),
                    Prop(r, "rotX"), Prop(r, "rotY"), Prop(r, "rotZ"))
      leftLeg == SetPosition(_createLeg(legLength, b, path \o <<"leftLeg">>),
                             2000, legLength, 0)
      rightLeg == SetPosition(_createLeg(legLength, b, path \o <<"rightLeg">>),
                              -2000, legLength, 0)
  IN  Object3D(b, path, <<torsoMesh, leftArm, rightArm, leftLeg, rightLeg>>)

_createBody(bodyOptions, armOptions, legOptions, b, path) ==
  LET radius == Prop(bodyOptions, "radius")
      stretchY == Prop(bodyOptions, "stretchY")
      bodyOffset == Times(radius, stretchY)
      legLength == Prop(legOptions, "length")
      torsoMesh == SetPosition(
                     SetScaleY(
                       Mesh(b, path \o <<"torso">>, "Sphere", <<radius, 32, 32>>, "00a9fe"),
                       stretchY),
                     0, Minus(Plus(legLength, bodyOffset), 1000), 0)
      xShoulder == Times(CosQuarterPi, radius)
      yShoulder == Plus(Plus(Times(Times(SinQuarterPi, radius), stretchY), legLength),
                        bodyOffset)
      armLength == Prop(armOptions, "length")
      l == ObjProp(armOptions, "leftArm")
      leftArm == SetRotation(
                   SetPosition(_createArm(armLength, b, path \o <<"leftArm">>),
                               xShoulder, yShoulder, 0),
                   Prop(l, "rotX"), Prop(l, "rotY"), Prop(l, "rotZ"))
      r == ObjProp(armOptions, "rightArm")
      rightArm == SetRotation(
                    SetPosition(_createArm(armLength, b, path \o <<"rightArm">>),
                                Neg(xShoulder), yShoulder, 0),
                    Prop(r, "rotX"), Prop(r, "rotY"), Prop(r, "rotZ"))
      leftLeg == SetPosition(_createLeg(legLength, b, path \o <<"leftLeg">>),
                             2000, legLength, 0)
      rightLeg == SetPosition(_createLeg(legLength, b, path \o <<"rightLeg">>),
                              -2000, legLength, 0)
  IN  Object3D(b, path, <<torsoMesh, leftArm, rightArm, leftLeg, rightLeg>>)

\* a clown whose head is placed one torso radius above the legs, not two
_createClown_headAtTorso(options, b) ==
  LET body == _createBody(options.body, options.arms, options.legs, b, <<"body">>)
      rotX == Prop(options.head, "rotX")
      rotY == Prop(options.head, "rotY")
      rotZ == Prop(options.head, "rotZ")
      radius == Prop(options.body, "radius")
      stretchY == Prop(options.body, "stretchY")
      length == Prop(options.legs, "length")
      headOffset == Minus(Plus(length, Times(radius, stretchY)), 1500)
      head == SetPosition(
                SetRotation(_createHead(options.head, b, <<"head">>), rotX, rotY, rotZ),
                0, headOffset, 0)
  IN  Object3D(b, <<>>, <<body, head>>)

\* a clown whose head is lowered by 1.5 times the head's own y-scale
_createClown_headByScale(options, b) ==
  LET body == _createBody(options.body, options.arms, options.legs, b, <<"body">>)
      rotX == Prop(options.head, "rotX")
      rotY == Prop(options.head, "rotY")
      rotZ == Prop(options.head, "rotZ")
      radius == Prop(options.body, "radius")
      stretchY == Prop(options.body, "stretchY")
      length == Prop(options.legs, "length")
      headOffset == Minus(Plus(length, Times(Times(2000, radius), stretchY)),
                          Times(1500, Prop(options.head, "scaleY")))
      head == SetPosition(
                SetRotation(_createHead(options.head, b, <<"head">>), rotX, rotY, rotZ),
                0, headOffset, 0)
  IN  Object3D(b, <<>>, <<body, head>>)

_createClown(options, b) ==
  LET body == _createBody(options.body, options.arms, options.legs, b, <<"body">>)
      rotX == Prop(options.head, "rotX")
      rotY == Prop(options.head, "rotY")
      rotZ == Prop(options.head, "rotZ")
      radius == Prop(options.body, "radius")
      stretchY == Prop(options.body, "stretchY")
      length == Prop(options.legs, "length")
      headOffset == Minus(Plus(length, Times(Times(2000, radius), stretchY)), 1500)
      head == SetPosition(
                SetRotation(_createHead(options.head, b, <<"head">>), rotX, rotY, rotZ),
                0, headOffset, 0)
  IN  Object3D(b, <<>>, <<body, head>>)

\* a build that also throws when asked for legs of no length
BuildThrows_zeroLength(options) ==
  \/ Sym \in {Prop(options.body, "radius"), Prop(options.body, "stretchY"),
              Prop(options.legs, "length"), Prop(options.arms, "length")}
  \/ Prop(options.legs, "length") = 0

\* The build throws a TypeError when a parameter it computes with is no number:
\* radius * stretchY, legOptions.length + bodyOffset - 1, -length/2.
BuildThrows(options) ==
  Sym \in {Prop(options.body, "radius"), Prop(options.body, "stretchY"),
           Prop(options.legs, "length"), Prop(options.arms, "length")}

----------------------------------------------------------------------------
(* The records callers pass to the constructor and to redraw *)

\* the examples of redraw in the documentation
DocOptions ==
  { [arms |-> [leftArm |-> [rotY |-> 1000]]],
    [legs |-> [length |-> 20000], body |-> [radius |-> 5000, stretchY |-> 1000]],
    [legs |-> [length |-> 15000]],
    [legs |-> [length |-> 15000],
     arms |-> [leftArm |-> [rotY |-> Over(PI, 4)]],
     head |-> [rotY |-> Over(PI, 4)]] }

\* records that name one section, some of its fields, or nothing at all
SectionOptions ==
  { EmptyObj,
    [arms |-> [length |-> 5000]],
    [arms |-> [rightArm |-> [rotX |-> Over(PI, 4), rotZ |-> 0]]],
    [arms |-> [length |-> 12000, leftArm |-> EmptyObj,
               rightArm |-> [rotY |-> Over(Neg(PI), 4)]]],
    [legs |-> EmptyObj],
    [legs |-> [length |-> 0]],
    [body |-> [stretchY |-> 1500]],
    [head |-> [rotY |-> Over(PI, 4)]],
    [head |-> [scaleX |-> 1500, scaleY |-> 500, rotZ |-> Over(Neg(PI), 6)]] }

\* the records of numbers the parameter is documented to take
Options == DocOptions \cup SectionOptions \cup {DefaultOptions}

\* the argument lists of a call: no argument, or one record
ArgLists == {<<>>} \cup {<<o>> : o \in Options}

\* records the parameter accepts although a value in them is no number
BadOptions == { [legs |-> [length |-> Sym]], [body |-> [radius |-> Sym]] }

\* the argument lists of a call that may be given such a record
AnyArgLists == ArgLists \cup {<<o>> : o \in BadOptions}

\* the parameter of constructor(options = {}) and of redraw(options = {})
OptionsParam(args) == IF Len(args) = 0 THEN EmptyObj ELSE args[1]

----------------------------------------------------------------------------
(* The Clown object *)

\* a build that reuses the objects of the last build
NewBuild_reuse(h) == IF Len(h) = 0 THEN 1 ELSE Len(h)

\* the allocation number of the next sub-tree
NewBuild(h) == Len(h) + 1

\* THREE.Object3D.remove: the child is taken out of children, if it is there
Remove(children, child) == SelectSeq(children, LAMBDA c : c # child)

\* THREE.Object3D.add: the child is appended to children
Add(children, child) == Append(children, child)

\* a redraw that never removes the old clown
RemoveOld_never(self) == self

\* redraw, up to and including the removal of the old clown
RemoveOld(self) ==
  IF Has(self, "_clown")
  THEN Assign(self, "children", Remove(self.children, self._clown))
  ELSE self

\* the heap h after the objects of allocation b are written: a new allocation
\* extends the heap, objects that exist already are overwritten where they are
Store(h, b, tree) ==
  IF b \in DOMAIN h THEN [h EXCEPT ![b] = tree] ELSE Append(h, tree)

\* a redraw that builds the new clown before it merges the options
redraw_stale(self, args, h) ==
  LET options == OptionsParam(args)
      s0 == Assign(self, "_options", InitOptions(self))
      s1 == Assign(self, "_options", _setOptions(self, options))
      s2 == RemoveOld(s1)
      b == NewBuild(h)
  IN  IF BuildThrows(s0._options)
      THEN [this |-> s2, heap |-> h, outcome |-> "threw"]
      ELSE [this |-> Assign(Assign(s2, "_clown", b), "children", Add(s2.children, b)),
            heap |-> Store(h, b, _createClown(s0._options, b)),
            outcome |-> "returned"]

\* a redraw that also puts the figure back at the origin
redraw_recentred(self, args, h) ==
  LET options == OptionsParam(args)
      s1 == Assign(SetPosition(self, 0, 0, 0), "_options", _setOptions(self, options))
      s2 == RemoveOld(s1)
      b == NewBuild(h)
  IN  IF BuildThrows(s1._options)
      THEN [this |-> s2, heap |-> h, outcome |-> "threw"]
      ELSE [this |-> Assign(Assign(s2, "_clown", b), "children", Add(s2.children, b)),
            heap |-> Store(h, b, _createClown(s1._options, b)),
            outcome |-> "returned"]

\* redraw(options) on the clown `self` with the heap h: the object and the heap
\* afterwards, and whether the call returned or threw
redraw(self, args, h) ==
  LET options == OptionsParam(args)
      s1 == Assign(self, "_options", _setOptions(self, options))
      s2 == RemoveOld(s1)
      b == NewBuild(h)
  IN  IF BuildThrows(s1._options)
      THEN [this |-> s2, heap |-> h, outcome |-> "threw"]
      ELSE [this |-> Assign(Assign(s2, "_clown", b), "children", Add(s2.children, b)),
            heap |-> Store(h, b, _createClown(s1._options, b)),
            outcome |-> "returned"]

\* what super() makes of `this`: an Object3D at the origin, not rotated, of
\* scale 1, with no children, no _options and no _clown
NewObject3D ==
  [children |-> <<>>, position |-> <<0, 0, 0>>, rotation |-> <<0, 0, 0>>,
   scale |-> <<1000, 1000, 1000>>]

RECURSIVE Shape(_)
\* a sub-tree without the identity of its nodes: types, geometry, colours,
\* positions, rotations, scales and the shapes of the children, in order
Shape(node) ==
  [node EXCEPT !.id = NodeId(0, node.id.path),
               !.children = [i \in DOMAIN node.children |-> Shape(node.children[i])]]

\* the shapes of the sub-trees attached to the clown `self`, in order
AttachedShapes(self, h) ==
  [i \in DOMAIN self.children |-> Shape(h[self.children[i]])]

\* the figure's own position, rotation and scale
OwnTransform(self) ==
  [position |-> self.position, rotation |-> self.rotation, scale |-> self.scale]

\* what a render pass draws of the clown `self`: the sub-trees attached to it,
\* under the figure's own position, rotation and scale
Image(self, h) == [figure |-> OwnTransform(self), shapes |-> AttachedShapes(self, h)]

Init ==
  /\ this = NewObject3D
  /\ heap = <<>>
  /\ call = [op |-> "none", args |-> <<>>, outcome |-> "none", n |-> 0]
  /\ pre = [this |-> NewObject3D,
            call |-> [op |-> "none", args |-> <<>>, outcome |-> "none", n |-> 0]]
  /\ screen = Image(NewObject3D, <<>>)
  /\ mem = [objs |-> <<>>, options |-> 0, record |-> 0]

\* a call that redraws and then renders the scene itself
Apply_rendering(op, args) ==
  LET r == redraw(this, args, heap)
  IN  /\ this' = r.this
      /\ heap' = r.heap
      /\ call' = [op |-> op, args |-> args, outcome |-> r.outcome, n |-> call.n + 1]
      /\ pre' = [this |-> this, call |-> call]
      /\ screen' = Image(r.this, r.heap)

\* a call of redraw, from the constructor or from the caller: the clown and the
\* heap are what redraw leaves; nothing is rendered
Apply(op, args) ==
  LET r == redraw(this, args, heap)
  IN  /\ this' = r.this
      /\ heap' = r.heap
      /\ call' = [op |-> op, args |-> args, outcome |-> r.outcome, n |-> call.n + 1]
      /\ pre' = [this |-> this, call |-> call]
      /\ screen' = screen

Called == call.op # "none"
Returned == call.outcome = "returned"

\* a clown on which redraw can be called: its constructor has returned
Constructed == Called /\ ~(call.op = "constructor" /\ ~Returned)

\* new Clown(options): the constructor calls redraw(options)
Construct(args) ==
  /\ call.op = "none"
  /\ Apply("constructor", args)
  /\ mem' = mem

\* clown.redraw(options) on a clown whose constructor returned
Redraw(args) ==
  /\ call.op # "none"
  /\ ~(call.op = "constructor" /\ call.outcome = "threw")
  /\ call.n < MaxCalls
  /\ Apply("redraw", args)
  /\ mem' = mem

Next ==
  \/ \E args \in ArgLists : Construct(args)
  \/ \E args \in ArgLists : Redraw(args)

\* the clown used with records of numbers, as its parameters are documented
Spec == Init /\ [][Next]_vars

NextAny ==
  \/ \E args \in AnyArgLists : Construct(args)
  \/ \E args \in AnyArgLists : Redraw(args)

\* the clown used with any record: a build that computes with a value that is
\* no number throws
SpecAny == Init /\ [][NextAny]_vars

----------------------------------------------------------------------------
(* The clown in a scene: the caller moves, turns and scales the whole figure *)
(* through the position, rotation and scale it inherits from Object3D.       *)

\* positions, rotations and scales the documentation and the control panel give
Positions == {<<3000, 0, 0>>, <<-10000, 10000, 5000>>}
Rotations == {<<0, Over(PI, 2), 0>>, <<Neg(PI), 0, PI>>}
Scales == {<<2000, 2000, 2000>>, <<500, 1000, 1500>>}

\* the calls in which the clown redraws itself
RedrawOps == {"constructor", "redraw"}
\* the calls that set the figure's own position, rotation or scale
TransformOps == {"position.set", "rotation.set", "scale.set"}

\* the argument lists of redraw in a scene: none, or an example of the documentation
SceneArgLists == {<<>>} \cup {<<o>> : o \in DocOptions}

\* a call on clown.position, clown.rotation or clown.scale that leaves the
\* clown object as `self`
Transform(op, v, self) ==
  /\ Constructed
  /\ call.n < MaxCalls
  /\ this' = self
  /\ heap' = heap
  /\ call' = [op |-> op, args |-> v, outcome |-> "returned", n |-> call.n + 1]
  /\ pre' = [this |-> this, call |-> call]
  /\ screen' = screen
  /\ mem' = mem

\* clown.position.set(x, y, z)
PositionSet(v) == Transform("position.set", v, SetPosition(this, v[1], v[2], v[3]))
\* clown.rotation.set(x, y, z)
RotationSet(v) == Transform("rotation.set", v, SetRotation(this, v[1], v[2], v[3]))
\* clown.scale.set(x, y, z)
ScaleSet(v) == Transform("scale.set", v, SetScale(this, v[1], v[2], v[3]))

\* TW.render(): the scene, with the clown in it, is drawn as it is now
Render ==
  /\ Constructed
  /\ screen' = Image(this, heap)
  /\ UNCHANGED <<this, heap, call, pre, mem>>

NextScene ==
  \/ \E args \in SceneArgLists : Construct(args)
  \/ \E args \in SceneArgLists : Redraw(args)
  \/ \E v \in Positions : PositionSet(v)
  \/ \E v \in Rotations : RotationSet(v)
  \/ \E v \in Scales : ScaleSet(v)
  \/ Render

\* the clown redrawn, moved, turned and scaled by its caller, and rendered when
\* the caller asks for it
SpecScene == Init /\ [][NextScene]_vars

----------------------------------------------------------------------------
(* What the claims speak of *)

\* the sixteen fields of a ClownParams record, as paths
FieldPaths ==
  {<<"arms", "length">>, <<"legs", "length">>,
   <<"body", "radius">>, <<"body", "stretchY">>}
  \cup {<<"arms", a, f>> : a \in {"leftArm", "rightArm"}, f \in ArmFields}
  \cup {<<"head", f>> : f \in HeadFields}

\* the value of record o at a path, undefined when o does not name it
At(o, path) ==
  IF Len(path) = 2
  THEN Prop(ObjProp(o, path[1]), path[2])
  ELSE Prop(ObjProp(ObjProp(o, path[1]), path[2]), path[3])

\* the record the last call was given
Given == OptionsParam(call.args)

\* the resolved parameters the last call started from: those of the clown, or
\* the documented defaults when it had none
Prior == IF Has(pre.this, "_options") THEN pre.this._options ELSE DefaultOptions


\* C1: a call overwrites exactly the fields its record names, with the values it
\* names, and leaves every other field of the resolved parameters at its prior
\* value; a section the record omits is left unchanged.
C1_MergeFrame ==
  Called =>
    /\ \A path \in FieldPaths :
         At(this._options, path) =
           IF At(Given, path) # Undefined THEN At(Given, path) ELSE At(Prior, path)
    /\ \A s \in Sections \ DOMAIN Given : this._options[s] = Prior[s]
    /\ DOMAIN this._options = Sections

\* redraw({legs: {length: 15}}) has changed legs.length only
C1_Witness ==
  /\ call.op = "redraw"
  /\ call.args = <<[legs |-> [length |-> 15000]]>>
  /\ Prior.legs.length # 15000
  /\ this._options.legs.length = 15000
  /\ Prior.arms.leftArm.rotY # 0
  /\ this._options.arms = Prior.arms
  /\ this._options.body = Prior.body
  /\ this._options.head = Prior.head

\* C2: the merge recurses one level into arms.leftArm and arms.rightArm: a record
\* that names some fields of one arm overwrites those fields only, keeping that
\* arm's other rotations, the other arm's record and arms.length; a record that
\* names only arms.length keeps both arm records.
C2_ArmsMerge ==
  (Called /\ Has(Given, "arms")) =>
    LET arms == Given.arms
        now == this._options.arms
    IN  /\ \A a \in {"leftArm", "rightArm"} :
             /\ DOMAIN now[a] = ArmFields
             /\ \A f \in ArmFields :
                  now[a][f] = IF Has(arms, a) /\ Has(arms[a], f)
                              THEN arms[a][f] ELSE Prior.arms[a][f]
             /\ ~Has(arms, a) => now[a] = Prior.arms[a]
        /\ ~Has(arms, "length") => now.length = Prior.arms.length
        /\ DOMAIN arms = {"length"} =>
             /\ now.leftArm = Prior.arms.leftArm
             /\ now.rightArm = Prior.arms.rightArm
             /\ now.length = arms.length

\* redraw({arms: {leftArm: {rotY: 1}}}) on a clown whose arms had been changed
C2_Witness ==
  /\ call.op = "redraw"
  /\ call.args = <<[arms |-> [leftArm |-> [rotY |-> 1000]]]>>
  /\ Prior.arms.leftArm.rotY # 1000
  /\ this._options.arms.leftArm =
       [rotX |-> Prior.arms.leftArm.rotX, rotY |-> 1000, rotZ |-> Prior.arms.leftArm.rotZ]
  /\ Prior.arms.rightArm # DefaultOptions.arms.rightArm
  /\ this._options.arms.rightArm = Prior.arms.rightArm
  /\ Prior.arms.length = 12000
  /\ this._options.arms.length = 12000

\* C3: a clown constructed with no arguments has exactly the documented
\* defaults as its resolved parameters.
C3_DefaultConstruction ==
  (call.op = "constructor" /\ call.args = <<>>) =>
    /\ Returned
    /\ DOMAIN this._options = Sections
    /\ this._options.arms =
         [length |-> 10000,
          leftArm |-> [rotX |-> 0, rotY |-> 0, rotZ |-> Over(PI, 6)],
          rightArm |-> [rotX |-> 0, rotY |-> 0, rotZ |-> Neg(Over(PI, 6))]]
    /\ this._options.legs = [length |-> 10000]
    /\ this._options.body = [radius |-> 6000, stretchY |-> 1250]
    /\ this._options.head =
         [scaleX |-> 1000, scaleY |-> 1000, scaleZ |-> 1000,
          rotX |-> 0, rotY |-> 0, rotZ |-> 0]

\* new Clown() has returned
C3_Witness ==
  /\ call.op = "constructor"
  /\ call.args = <<>>
  /\ Returned
  /\ ~Has(pre.this, "_options")
  /\ this._options.body.stretchY = 1250
  /\ this._options.arms.rightArm.rotZ < 0

\* a field is populated when the record names it with a value other than undefined
Populated(o) == \A path \in FieldPaths : At(o, path) \notin {Undefined, NaN}

\* C4: after construction and after any sequence of redraw calls, every field of
\* the resolved parameters is populated.
C4_FullyPopulated ==
  Called =>
    /\ Has(this, "_options")
    /\ DOMAIN this._options = Sections
    /\ DOMAIN this._options.arms = {"length", "leftArm", "rightArm"}
    /\ DOMAIN this._options.arms.leftArm = ArmFields
    /\ DOMAIN this._options.arms.rightArm = ArmFields
    /\ DOMAIN this._options.legs = {"length"}
    /\ DOMAIN this._options.body = {"radius", "stretchY"}
    /\ DOMAIN this._options.head = HeadFields
    /\ Populated(this._options)

\* three calls, the last two naming an empty left arm and a part of the right arm
C4_Witness ==
  /\ call.n = 3
  /\ call.args = <<[arms |-> [length |-> 12000, leftArm |-> EmptyObj,
                              rightArm |-> [rotY |-> Over(Neg(PI), 4)]]]>>
  /\ pre.call.args = <<[arms |-> [rightArm |-> [rotX |-> Over(PI, 4), rotZ |-> 0]]]>>
  /\ Populated(this._options)
  /\ this._options.arms.rightArm =
       [rotX |-> Over(PI, 4), rotY |-> Over(Neg(PI), 4), rotZ |-> 0]

\* the figure's states: no sub-tree attached, exactly one sub-tree attached
Unbuilt(self) == self.children = <<>>
Built(self) == Len(self.children) = 1

\* C5: after construction and after every completed redraw the figure has exactly
\* one attached sub-tree, the one just built: none of an earlier build remains
\* attached and none is attached twice.
C5_OneSubTree ==
  Returned =>
    /\ Len(this.children) = 1
    /\ this.children = <<this._clown>>
    /\ this._clown = Len(heap)

\* a third sub-tree has replaced the second
C5_Witness ==
  /\ call.op = "redraw"
  /\ Returned
  /\ pre.call.op = "redraw"
  /\ pre.call.outcome = "returned"
  /\ pre.this.children = <<2>>
  /\ this.children = <<3>>
  /\ Len(heap) = 3

\* C6: construction takes the figure from Unbuilt to Built, every later redraw
\* keeps it Built, and whenever the figure is Built the attached sub-tree is what
\* _createClown makes of the current resolved parameters.
C6_AlwaysBuiltFromCurrent ==
  /\ ~Called => Unbuilt(this)
  /\ (call.op = "constructor" /\ Returned) => (Unbuilt(pre.this) /\ Built(this))
  /\ (call.op = "redraw" /\ Built(pre.this)) => Built(this)
  /\ Built(this) =>
       /\ this.children[1] \in 1..Len(heap)
       /\ heap[this.children[1]] = _createClown(this._options, this.children[1])

\* a redraw that changed the legs and the body has rebuilt the clown from them
C6_Witness ==
  /\ call.op = "redraw"
  /\ call.args = <<[legs |-> [length |-> 20000],
                    body |-> [radius |-> 5000, stretchY |-> 1000]]>>
  /\ Built(pre.this)
  /\ Built(this)
  /\ pre.this._options.legs.length = 15000
  /\ heap[this._clown] = _createClown(this._options, this._clown)
  /\ heap[this._clown].children[2].position = <<0, 28500, 0>>
  /\ heap[pre.this._clown].children[2].position # <<0, 28500, 0>>

\* C7: when the build fails during a call, the figure is as it was before the
\* call: a Built figure has its previous sub-tree attached, an Unbuilt figure has
\* none, and nothing partially built is attached.
C7_FailedBuildKeepsFigure ==
  call.outcome = "threw" =>
    /\ this.children = pre.this.children
    /\ Built(pre.this) => (Built(this) /\ this.children = <<pre.this._clown>>)
    /\ Unbuilt(pre.this) => Unbuilt(this)

\* C8: redraw({}) and redraw() leave every resolved parameter at the value it
\* had before the call.
C8_EmptyRedraw ==
  (call.op = "redraw" /\ Given = EmptyObj) =>
    /\ this._options = pre.this._options
    /\ \A path \in FieldPaths : At(this._options, path) = At(pre.this._options, path)

\* redraw() on a clown whose parameters were not the defaults
C8_Witness ==
  /\ call.op = "redraw"
  /\ call.args = <<>>
  /\ Returned
  /\ pre.this._options # DefaultOptions
  /\ pre.this._options.legs.length = 20000
  /\ this._options = pre.this._options

\* C9: from any state and for any record p, redraw(p) called twice in a row
\* leaves the resolved parameters and the shape of the attached sub-tree that
\* redraw(p) called once leaves: in every state from which a call is made, for
\* every call that can be made there, and in every state reached by two calls
\* given the same record.
C9_RedrawIdempotent ==
  /\ (Constructed /\ call.n < MaxCalls) =>
       \A args \in AnyArgLists :
         LET once == redraw(this, args, heap)
             twice == redraw(once.this, args, once.heap)
         IN  /\ twice.outcome = once.outcome
             /\ twice.this._options = once.this._options
             /\ AttachedShapes(twice.this, twice.heap) =
                  AttachedShapes(once.this, once.heap)
  /\ (call.op = "redraw" /\ pre.call.op = "redraw"
        /\ OptionsParam(call.args) = OptionsParam(pre.call.args)) =>
       /\ call.outcome = pre.call.outcome
       /\ this._options = pre.this._options
       /\ AttachedShapes(this, heap) = AttachedShapes(pre.this, heap)

\* the same record, changing an arm and the head, given to redraw twice in a row
C9_Witness ==
  /\ call.op = "redraw"
  /\ pre.call.op = "redraw"
  /\ call.args = pre.call.args
  /\ call.args = <<[legs |-> [length |-> 15000],
                    arms |-> [leftArm |-> [rotY |-> Over(PI, 4)]],
                    head |-> [rotY |-> Over(PI, 4)]]>>
  /\ Returned
  /\ this._clown = 3
  /\ pre.this._clown = 2
  /\ this._options = pre.this._options
  /\ Shape(heap[3]) = Shape(heap[2])
  /\ Shape(heap[2]) # Shape(heap[1])

RECURSIVE NodeIds(_)
\* the ids of the nodes of a sub-tree
NodeIds(node) ==
  {node.id} \cup UNION {NodeIds(node.children[i]) : i \in DOMAIN node.children}

\* the elements of a sequence
Range(seq) == {seq[i] : i \in DOMAIN seq}

\* C10: every redraw that builds makes a fresh sub-tree: the sub-tree attached
\* after it shares no node with any sub-tree built before, the sub-tree attached
\* before it is detached, and no call modifies a node of an existing sub-tree.
C10_FreshSubTree ==
  [][ /\ \A i \in DOMAIN heap : i \in DOMAIN heap' /\ heap'[i] = heap[i]
      /\ call'.outcome = "returned" =>
           /\ Len(heap') = Len(heap) + 1
           /\ this'._clown = Len(heap')
           /\ this'._clown \in Range(this'.children)
           /\ \A i \in DOMAIN heap :
                NodeIds(heap'[this'._clown]) \cap NodeIds(heap[i]) = {}
           /\ \A c \in Range(this.children) : c \notin Range(this'.children)
    ]_vars

\* a redraw has replaced the attached sub-tree by one with other nodes
C10_Witness ==
  /\ call.op = "redraw"
  /\ Returned
  /\ pre.this.children = <<1>>
  /\ this.children = <<2>>
  /\ NodeIds(heap[2]) \cap NodeIds(heap[1]) = {}
  /\ Cardinality(NodeIds(heap[2])) = Cardinality(NodeIds(heap[1]))
  /\ Cardinality(NodeIds(heap[2])) > 1
  /\ heap[1] = _createClown(pre.this._options, 1)

----------------------------------------------------------------------------
(* The records in memory.  An object has an address; a property that holds  *)
(* a record holds the record's address, so two properties can hold the same *)
(* record.  A number is held by value.                                      *)

\* the properties that hold a record
RefProps == Sections \cup {"leftArm", "rightArm"}

RECURSIVE New(_, _, _)
\* memory after the record literal `rec` is evaluated: every record in it is a
\* new object; o is the object made so far of the outermost record
New(objs, rec, o) ==
  IF DOMAIN o = DOMAIN rec
  THEN [objs |-> Append(objs, o), at |-> Len(objs) + 1]
  ELSE LET k == CHOOSE j \in DOMAIN rec \ DOMAIN o : TRUE
       IN  IF k \in RefProps
           THEN LET sub == New(objs, rec[k], EmptyObj)
                IN  New(sub.objs, rec, Assign(o, k, sub.at))
           ELSE New(objs, rec, Assign(o, k, rec[k]))

RECURSIVE Load(_, _)
\* the record at address a as a value: every address in it replaced by the
\* record found there
Load(objs, a) ==
  [k \in DOMAIN objs[a] |->
     IF k \in RefProps THEN Load(objs, objs[a][k]) ELSE objs[a][k]]

RECURSIVE Reach(_, _)
\* the addresses of the record at a and of every record nested in it
Reach(objs, a) ==
  {a} \cup UNION {Reach(objs, objs[a][k]) : k \in DOMAIN objs[a] \cap RefProps}

\* the object at o.k, to be spread: no properties when o has no k
ObjAt(objs, o, k) == IF Has(o, k) THEN objs[o[k]] ELSE EmptyObj

\* memory after o.k = v on the object at address a
AssignAt(objs, a, k, v) == [objs EXCEPT ![a] = Assign(@, k, v)]

\* if (!this._options) this._options = {defaults}: the address of this._options
InitOptionsAt(objs, self) ==
  IF self = 0 THEN New(objs, DefaultOptions, EmptyObj) ELSE [objs |-> objs, at |-> self]

\* the arms object literal of _setOptions: three new objects, the arm records
\* first; cur and arms are the addresses of this._options.arms and options.arms
MergeArmsAt(objs, cur, arms) ==
  LET left == Spread(ObjAt(objs, objs[cur], "leftArm"), ObjAt(objs, objs[arms], "leftArm"))
      right == Spread(ObjAt(objs, objs[cur], "rightArm"), ObjAt(objs, objs[arms], "rightArm"))
      o1 == Append(objs, left)
      o2 == Append(o1, right)
      lit == Spread(Spread(objs[cur], objs[arms]),
                    [leftArm |-> Len(o1), rightArm |-> Len(o2)])
  IN  [objs |-> Append(o2, lit), at |-> Len(o2) + 1]

\* a section that is made the caller's record itself: this._options.legs = legs
MergeSectionAt_alias(objs, cur, part) == [objs |-> objs, at |-> part]

\* the legs, body and head object literals of _setOptions: one new object
MergeSectionAt(objs, cur, part) ==
  [objs |-> Append(objs, Spread(objs[cur], objs[part])), at |-> Len(objs) + 1]

\* this._options.<section> = {...}: memory after the object literal `lit` is
\* assigned to the section k of the options at address at
AssignSection(at, k, lit) == AssignAt(lit.objs, at, k, lit.at)

\* if (options.arms) this._options.arms = {...}
ArmsAt(objs, at, options) ==
  IF Has(options, "arms")
  THEN AssignSection(at, "arms", MergeArmsAt(objs, objs[at].arms, options.arms))
  ELSE objs

\* if (options.legs) this._options.legs = {...}, and so for body and head
SectionAt(objs, at, options, k) ==
  IF Has(options, k)
  THEN AssignSection(at, k, MergeSectionAt(objs, objs[at][k], options[k]))
  ELSE objs

\* the four merges of _setOptions, in the order of the code, on the options at
\* address at; param is the address of the argument (0: no argument, a new {})
MergeAllAt(objs, at, param) ==
  SectionAt(
    SectionAt(
      SectionAt(
        ArmsAt(objs, at, IF param = 0 THEN EmptyObj ELSE objs[param]),
        at, IF param = 0 THEN EmptyObj ELSE objs[param], "legs"),
      at, IF param = 0 THEN EmptyObj ELSE objs[param], "body"),
    at, IF param = 0 THEN EmptyObj ELSE objs[param], "head")

\* _setOptions from the options object i (its address and the memory it is in)
SetFrom(i, param) == [objs |-> MergeAllAt(i.objs, i.at, param), at |-> i.at]

\* memory after _setOptions(options), and the address of this._options; self is
\* the address of this._options before (0: none) and param the address of the
\* argument
_setOptionsAt(objs, self, param) == SetFrom(InitOptionsAt(objs, self), param)

\* values the caller writes into a field of its record
WrittenValues == {500, 2000}

\* the calls in which the caller changes a field of its record
WriteOps == {"write"}

\* the memory m with the caller's record, or this._options, at r.at in r.objs
WithRecord(m, r) == [m EXCEPT !.objs = r.objs, !.record = r.at]
WithOptions(m, r) == [m EXCEPT !.objs = r.objs, !.options = r.at]

\* const record = {...}: the caller makes the record it will pass to the clown
CallerNew(rec) ==
  /\ call.op = "none"
  /\ mem.record = 0
  /\ mem' = WithRecord(mem, New(mem.objs, rec, EmptyObj))
  /\ UNCHANGED <<this, heap, call, pre, screen>>

\* memory after the clown is given the record at address param (0: no argument)
Given_setOptions(param) ==
  WithOptions(mem, _setOptionsAt(mem.objs, mem.options, param))

\* new Clown(record), or new Clown(), by a caller that holds a record
CallerConstruct(pass) ==
  /\ call.op = "none"
  /\ mem.record # 0
  /\ Apply("constructor", IF pass THEN <<Load(mem.objs, mem.record)>> ELSE <<>>)
  /\ mem' = Given_setOptions(IF pass THEN mem.record ELSE 0)

\* clown.redraw(record): the caller passes the record it holds, as it is now
CallerRedraw ==
  /\ Constructed
  /\ call.n < MaxCalls
  /\ Apply("redraw", <<Load(mem.objs, mem.record)>>)
  /\ mem' = Given_setOptions(mem.record)

\* record.<...>.f = v: the caller changes a field of its record, or of a record
\* nested in it, at address a
CallerWrite(a, f, v) ==
  /\ Constructed
  /\ call.n < MaxCalls
  /\ a \in Reach(mem.objs, mem.record)
  /\ f \in DOMAIN mem.objs[a] \ RefProps
  /\ mem' = [mem EXCEPT !.objs = AssignAt(mem.objs, a, f, v)]
  /\ call' = [op |-> "write", args |-> <<a, f, v>>, outcome |-> "returned",
              n |-> call.n + 1]
  /\ pre' = [this |-> this, call |-> call]
  /\ UNCHANGED <<this, heap, screen>>

\* the names of the fields of the records
FieldNames == {"length", "radius", "stretchY"} \cup ArmFields \cup HeadFields

NextCaller ==
  \/ \E rec \in Options : CallerNew(rec)
  \/ \E pass \in BOOLEAN : CallerConstruct(pass)
  \/ CallerRedraw
  \/ \E a \in DOMAIN mem.objs, f \in FieldNames, v \in WrittenValues : CallerWrite(a, f, v)

\* a caller that holds one record, passes it to the clown and changes it
\* between the calls
SpecCaller == Init /\ [][NextCaller]_vars

----------------------------------------------------------------------------
(* The page: one clown, the record clownParams shared with the control      *)
(* panel, and the panel's controls.  A control writes its value into its    *)
(* field and then calls its change handler.                                 *)

\* const clownParams = {...}
clownParams ==
  [arms |-> [length |-> 10000,
             leftArm |-> [rotX |-> 0, rotY |-> 0, rotZ |-> Over(PI, 6)],
             rightArm |-> [rotX |-> 0, rotY |-> 0, rotZ |-> Over(Neg(PI), 6)]],
   legs |-> [length |-> 10000],
   body |-> [radius |-> 6000, stretchY |-> 1250],
   head |-> [scaleX |-> 1000, scaleY |-> 1000, scaleZ |-> 1000,
             rotX |-> 0, rotY |-> 0, rotZ |-> 0]]

\* a control of the panel: the record of clownParams it is bound to (as the
\* path from clownParams), the field, and the least and greatest value
Control(path, f, min, max) == [path |-> path, f |-> f, min |-> min, max |-> max]

\* the controls of the Arms, Legs, Body and Head folders
ParamControls ==
  {Control(<<"arms">>, "length", 5000, 15000)}
  \cup {Control(<<"arms", a>>, f, Neg(PI), PI) : a \in {"leftArm", "rightArm"}, f \in ArmFields}
  \cup {Control(<<"legs">>, "length", 5000, 15000),
        Control(<<"body">>, "radius", 5000, 7000),
        Control(<<"body">>, "stretchY", 1000, 1500)}
  \cup {Control(<<"head">>, f, 500, 1500) : f \in {"scaleX", "scaleY", "scaleZ"}}
  \cup {Control(<<"head">>, "rotX", Over(Neg(PI), 4), Over(PI, 6)),
        Control(<<"head">>, "rotY", Over(Neg(PI), 4), Over(PI, 4)),
        Control(<<"head">>, "rotZ", Over(Neg(PI), 6), Over(PI, 6))}

\* the controls of the Transform folder: the property of the clown they drive,
\* the axis (x, y, z as 1, 2, 3), and the least and greatest value
TransformControls ==
  {Control(<<"position">>, axis, -10000, 10000) : axis \in 1..3}
  \cup {Control(<<"rotation">>, axis, Neg(PI), PI) : axis \in 1..3}
  \cup {Control(<<"scale">>, axis, 500, 2000) : axis \in 1..3}

\* the address of the record a control is bound to: const {leftArm} = clownParams.arms
BoundTo(objs, record, path) ==
  IF Len(path) = 1 THEN objs[record][path[1]] ELSE objs[objs[record][path[1]]][path[2]]

\* a redrawClown that calls clown.redraw() without the parameters
redrawClown_noParams(self, h, objs, record) == redraw(self, <<>>, h)

\* redrawClown(): clown.redraw(clownParams), on the clown `self` with the heap h,
\* clownParams being the record at address `record`; TW.render() follows
redrawClown(self, h, objs, record) == redraw(self, <<Load(objs, record)>>, h)

\* the change handler of a control, called with the clown `self` and memory m
\* as the control left them: redrawClown() and the render pass in it
OnChange(self, m, args) ==
  LET r == redrawClown(self, heap, m.objs, m.record)
  IN  /\ Constructed
      /\ call.n < MaxCalls
      /\ this' = r.this
      /\ heap' = r.heap
      /\ screen' = Image(r.this, r.heap)
      /\ mem' = WithOptions(m, _setOptionsAt(m.objs, m.options, m.record))
      /\ call' = [op |-> "onChange", args |-> args, outcome |-> r.outcome,
                  n |-> call.n + 1]
      /\ pre' = [this |-> this, call |-> call]

\* a control of a parameter folder is set to v: the value is written into the
\* field of clownParams, then redrawClown is called
ParamChange(c, v) ==
  OnChange(this,
           [mem EXCEPT !.objs = AssignAt(mem.objs, BoundTo(mem.objs, mem.record, c.path),
                                         c.f, v)],
           <<c.path, c.f, v>>)

\* a control of the Transform folder is set to v: the clown's position,
\* rotation or scale is set with v on the control's axis, then redrawClown is
\* called.  clownTransform holds what the clown's own transform is: both start
\* at position 0, rotation 0, scale 1 and every change is copied to the clown.
TransformChange(c, v) ==
  OnChange([this EXCEPT ![c.path[1]][c.f] = v], mem, <<c.path, c.f, v>>)

\* the page is loaded: clownParams is made, then the clown with new Clown()
LoadParams == CallerNew(clownParams)
LoadClown == CallerConstruct(FALSE)

NextPanel ==
  \/ LoadParams
  \/ LoadClown
  \/ \E c \in ParamControls : \E v \in {c.min, c.max} : ParamChange(c, v)
  \/ \E c \in TransformControls : TransformChange(c, c.max)

\* the page with its control panel
SpecPanel == Init /\ [][NextPanel]_vars

----------------------------------------------------------------------------
(* The nodes of the attached sub-tree, by the order the builders add them *)

\* the sub-tree redraw attached last: this._clown
Attached == heap[this._clown]
\* _createClown adds the body, then the head
BodyNode == Attached.children[1]
HeadNode == Attached.children[2]
\* _createBody adds the torso, the left and right arm, the left and right leg
TorsoNode == BodyNode.children[1]
LeftArmNode == BodyNode.children[2]
RightArmNode == BodyNode.children[3]
LeftLegNode == BodyNode.children[4]
RightLegNode == BodyNode.children[5]

\* C11: whenever a sub-tree is attached, its head node is positioned at
\* (0, legs.length + 2 * body.radius * body.stretchY - 1.5, 0) of the resolved
\* parameters.
C11_HeadPosition ==
  Built(this) =>
    HeadNode.position =
      <<0,
        this._options.legs.length
          + (2 * this._options.body.radius * this._options.body.stretchY) \div 1000
          - 1500,
        0>>

\* legs of 20 under a body of radius 5 and stretch 1: the head is at 20 + 10 - 1.5
C11_Witness ==
  /\ Built(this)
  /\ this._options.legs.length = 20000
  /\ this._options.body = [radius |-> 5000, stretchY |-> 1000]
  /\ HeadNode.position = <<0, 28500, 0>>
  /\ HeadNode.id.path = <<"head">>

\* what a limb is made of: the geometry and the placement of each of its meshes
Parts(limb) ==
  [i \in DOMAIN limb.children |->
     [geometry |-> limb.children[i].geometry,
      position |-> limb.children[i].position,
      rotation |-> limb.children[i].rotation,
      scale |-> limb.children[i].scale]]

\* the limb r is placed as the mirror image of the limb l in the plane x = 0
Mirrored(l, r) ==
  /\ r.position[1] = 0 - l.position[1]
  /\ r.position[2] = l.position[2]
  /\ r.position[3] = l.position[3]

\* C12: whenever a sub-tree is attached, the right arm's x-position is the
\* negation of the left arm's and the right leg's x-position is the negation of
\* the left leg's, their y and z positions are equal, and the two arms, and the
\* two legs, are made of the same meshes: same lengths, same radii, same
\* placement inside the limb.
C12_MirrorSymmetry ==
  Built(this) =>
    /\ Mirrored(LeftArmNode, RightArmNode)
    /\ Mirrored(LeftLegNode, RightLegNode)
    /\ Parts(LeftArmNode) = Parts(RightArmNode)
    /\ Parts(LeftLegNode) = Parts(RightLegNode)
    /\ LeftArmNode.scale = RightArmNode.scale
    /\ LeftLegNode.scale = RightLegNode.scale

\* a body of radius 5 on legs of 20: shoulders at x = 3.535 and -3.535, hips at
\* x = 2 and -2, arm limbs of radius 0.9 and leg limbs of radius 0.8 on both sides
C12_Witness ==
  /\ Built(this)
  /\ this._options.body.radius = 5000
  /\ this._options.legs.length = 20000
  /\ LeftArmNode.position[1] = 3535
  /\ RightArmNode.position[1] = -3535
  /\ LeftLegNode.position = <<2000, 20000, 0>>
  /\ RightLegNode.position = <<-2000, 20000, 0>>
  /\ RightArmNode.children[2].geometry.args = <<900, 900, this._options.arms.length>>
  /\ RightLegNode.children[1].geometry.args = <<800, 800, 20000>>
  /\ LeftArmNode.rotation # RightArmNode.rotation

\* the head node of the sub-tree that was attached when the last call started
PriorHeadNode == heap[pre.this._clown].children[2]

\* C13: whenever a sub-tree is attached, its head node's rotation is
\* (head.rotX, head.rotY, head.rotZ) of the resolved parameters; and after a
\* redraw whose record names no section but head, the head node is positioned
\* where the head node of the sub-tree before the redraw was.
C13_HeadRotationOnly ==
  /\ Built(this) =>
       HeadNode.rotation = <<this._options.head.rotX, this._options.head.rotY,
                             this._options.head.rotZ>>
  /\ (call.op = "redraw" /\ DOMAIN Given \subseteq {"head"}
        /\ Built(pre.this) /\ Built(this)) =>
       HeadNode.position = PriorHeadNode.position

\* redraw({head: {rotY: pi/4}}) on a clown with legs of 15: the new head is
\* turned by pi/4 and stands where the old head stood
C13_Witness ==
  /\ call.op = "redraw"
  /\ call.args = <<[head |-> [rotY |-> Over(PI, 4)]]>>
  /\ Built(pre.this)
  /\ Built(this)
  /\ pre.this._options.head.rotY = 0
  /\ pre.this._options.legs.length = 15000
  /\ HeadNode.rotation = <<0, 785, 0>>
  /\ PriorHeadNode.rotation = <<0, 0, 0>>
  /\ HeadNode.position = <<0, 28500, 0>>
  /\ PriorHeadNode.position = <<0, 28500, 0>>
  /\ HeadNode.id # PriorHeadNode.id

\* C14: a constructor or redraw call leaves the figure's own position, rotation
\* and scale as they were, and a call that sets one of them leaves the resolved
\* parameters, the attached sub-tree and every sub-tree built so far as they were.
C14_TransformOrthogonal ==
  [][ /\ (call'.n = call.n + 1 /\ call'.op \in RedrawOps) =>
           OwnTransform(this') = OwnTransform(this)
      /\ (call'.n = call.n + 1 /\ call'.op \in TransformOps) =>
           /\ this'._options = this._options
           /\ this'._clown = this._clown
           /\ this'.children = this.children
           /\ heap' = heap
           /\ AttachedShapes(this', heap') = AttachedShapes(this, heap)
    ]_vars

\* a clown moved to x = 3 and then redrawn with longer legs is still at x = 3,
\* and its parameters were the defaults while it was moved
C14_Witness ==
  /\ call.op = "redraw"
  /\ call.args = <<[legs |-> [length |-> 15000]]>>
  /\ Returned
  /\ pre.call.op = "position.set"
  /\ pre.call.args = <<3000, 0, 0>>
  /\ pre.this._options = DefaultOptions
  /\ pre.this.position = <<3000, 0, 0>>
  /\ this.position = <<3000, 0, 0>>
  /\ this._options.legs.length = 15000
  /\ this._clown = 2

\* C15: a call that leaves legs.length = 0 returns, with the torso at
\* y = body.radius * body.stretchY - 1; and whenever a sub-tree is attached its
\* torso is at (0, legs.length + body.radius * body.stretchY - 1, 0) with scale
\* (1, body.stretchY, 1).
C15_TorsoPlacement ==
  /\ (Called /\ this._options.legs.length = 0) =>
       /\ Returned
       /\ Built(this)
       /\ TorsoNode.position[2] =
            (this._options.body.radius * this._options.body.stretchY) \div 1000 - 1000
  /\ Built(this) =>
       /\ TorsoNode.position =
            <<0,
              this._options.legs.length
                + (this._options.body.radius * this._options.body.stretchY) \div 1000
                - 1000,
              0>>
       /\ TorsoNode.scale = <<1000, this._options.body.stretchY, 1000>>

\* redraw({legs: {length: 0}}) on a clown of radius 6 and stretch 1.5: the
\* call returned, the torso is at y = 9 - 1 and the leg limbs have length 0
C15_Witness ==
  /\ call.op = "redraw"
  /\ call.args = <<[legs |-> [length |-> 0]]>>
  /\ Returned
  /\ Built(this)
  /\ this._options.legs.length = 0
  /\ this._options.body = [radius |-> 6000, stretchY |-> 1500]
  /\ TorsoNode.position = <<0, 8000, 0>>
  /\ TorsoNode.scale = <<1000, 1500, 1000>>
  /\ LeftLegNode.children[1].geometry.args = <<800, 800, 0>>
  /\ LeftLegNode.position = <<2000, 0, 0>>

\* C16: a constructor or redraw call leaves what is displayed as it was; what is
\* displayed changes only in a render pass of the caller, which draws the clown
\* as it is then.
C16_RedrawDoesNotRender ==
  [][ /\ (call'.n = call.n + 1 /\ call'.op \in RedrawOps) => screen' = screen
      /\ screen' # screen =>
           /\ call' = call
           /\ this' = this
           /\ heap' = heap
           /\ screen' = Image(this, heap)
    ]_vars

\* after a render and a redraw with longer legs, the displayed image is stale:
\* it shows the sub-tree the redraw removed, not the one it attached
C16_Witness ==
  /\ call.op = "redraw"
  /\ call.args = <<[legs |-> [length |-> 15000]]>>
  /\ Returned
  /\ pre.call.op = "constructor"
  /\ Len(screen.shapes) = 1
  /\ screen = Image(pre.this, heap)
  /\ screen # Image(this, heap)
  /\ screen.shapes[1] = Shape(heap[1])
  /\ this.children = <<2>>

\* radius * stretchY * sin(45 degrees): the height above the torso's centre of
\* the point of the torso's surface at 45 degrees elevation
SurfaceRise(bodyOptions) ==
  (((SinQuarterPi * bodyOptions.radius) \div 1000) * bodyOptions.stretchY) \div 1000

\* |a - b| is at most d
Near(a, b, d) == a - b <= d /\ b - a <= d

\* C17: whenever a sub-tree is attached, the shoulders are at
\* x = +/- radius * cos(45 degrees), and each shoulder's y minus the y of the
\* torso's centre is radius * stretchY * sin(45 degrees), to within 0.002.
C17_ShoulderOnTorso ==
  Built(this) =>
    /\ LeftArmNode.position[1] = (CosQuarterPi * this._options.body.radius) \div 1000
    /\ RightArmNode.position[1] = 0 - LeftArmNode.position[1]
    /\ Near(LeftArmNode.position[2] - TorsoNode.position[2],
            SurfaceRise(this._options.body), 2)
    /\ Near(RightArmNode.position[2] - TorsoNode.position[2],
            SurfaceRise(this._options.body), 2)

\* a node that is neither moved, turned nor scaled against its parent
Unmoved(node) ==
  /\ node.position = <<0, 0, 0>>
  /\ node.rotation = <<0, 0, 0>>
  /\ node.scale = <<1000, 1000, 1000>>

\* the centre of a leg's foot (the second mesh of the leg) in the figure's
\* coordinates, for a leg that is moved but neither turned nor scaled, in a body
\* and a sub-tree that are Unmoved
FootCentre(leg) ==
  <<leg.position[1] + leg.children[2].position[1],
    leg.position[2] + leg.children[2].position[2],
    leg.position[3] + leg.children[2].position[3]>>

\* C18: whenever a sub-tree is attached, the legs are attached at
\* (2, legs.length, 0) and (-2, legs.length, 0), unturned and unscaled in an
\* unmoved body, each foot is legs.length below its hip, so both foot centres are
\* at height 0 of the figure and their midpoint is the figure's origin (0, 0, 0).
C18_OriginBetweenFeet ==
  Built(this) =>
    /\ Unmoved(Attached)
    /\ Unmoved(BodyNode)
    /\ LeftLegNode.position = <<2000, this._options.legs.length, 0>>
    /\ RightLegNode.position = <<-2000, this._options.legs.length, 0>>
    /\ \A leg \in {LeftLegNode, RightLegNode} :
         /\ leg.rotation = <<0, 0, 0>>
         /\ leg.scale = <<1000, 1000, 1000>>
         /\ leg.children[2].id.path[Len(leg.children[2].id.path)] = "foot"
         /\ leg.children[2].position = <<0, 0 - this._options.legs.length, 0>>
         /\ FootCentre(leg)[2] = 0
    /\ FootCentre(LeftLegNode)[1] + FootCentre(RightLegNode)[1] = 0
    /\ FootCentre(LeftLegNode)[3] + FootCentre(RightLegNode)[3] = 0

\* legs of 20 under a body of radius 5: the hips are at height 20, the feet at
\* (2, 0, 0) and (-2, 0, 0)
C18_Witness ==
  /\ Built(this)
  /\ this._options.legs.length = 20000
  /\ this._options.body.radius = 5000
  /\ LeftLegNode.position = <<2000, 20000, 0>>
  /\ LeftLegNode.children[2].position = <<0, -20000, 0>>
  /\ FootCentre(LeftLegNode) = <<2000, 0, 0>>
  /\ FootCentre(RightLegNode) = <<-2000, 0, 0>>

\* _createHead adds the hat last, after the dome, the ears, the eyes, the nose
\* and the smile; _createHat adds the rim, then the crown
HatNode == HeadNode.children[8]
HatRimNode == HatNode.children[1]
HatTopNode == HatNode.children[2]

\* a CylinderGeometry(radiusTop, radiusBottom, height, ...) is centred on its
\* mesh's position: its faces are half its height below and above it
LowerFace(cylinder) == cylinder.position[2] - cylinder.geometry.args[3] \div 2
UpperFace(cylinder) == cylinder.position[2] + cylinder.geometry.args[3] \div 2

\* C19: whenever a sub-tree is attached, in its hat the crown (height 6, moved up
\* by 3) has its lower face at the height of the upper face of the rim (height
\* 0.5, at the hat's origin).
C19_CrownRestsOnRim ==
  Built(this) =>
    /\ HatRimNode.geometry = [shape |-> "Cylinder", args |-> <<8000, 8000, 500, 32, 32>>]
    /\ HatRimNode.position = <<0, 0, 0>>
    /\ HatTopNode.geometry.shape = "Cylinder"
    /\ HatTopNode.geometry.args[3] = 6000
    /\ HatTopNode.position = <<0, 3000, 0>>
    /\ LowerFace(HatTopNode) = UpperFace(HatRimNode)

\* C20: a constructor or redraw call leaves the caller's record, and every
\* record nested in it, as it was; after every step no record of the resolved
\* parameters is a record of the caller's, and the resolved parameters in
\* memory are those of the clown; and a step in which the caller changes a field
\* of its record, or of a nested arm record, leaves the resolved parameters and
\* every sub-tree as they were.
C20_NoSharedRecord ==
  [][ /\ (call'.n = call.n + 1 /\ call'.op \in RedrawOps /\ mem.record # 0) =>
           /\ mem'.record = mem.record
           /\ \A a \in Reach(mem.objs, mem.record) : mem'.objs[a] = mem.objs[a]
      /\ (mem'.options # 0 /\ mem'.record # 0) =>
           Reach(mem'.objs, mem'.options) \cap Reach(mem'.objs, mem'.record) = {}
      /\ mem'.options # 0 => Load(mem'.objs, mem'.options) = this'._options
      /\ (call'.n = call.n + 1 /\ call'.op \in WriteOps) =>
           /\ Load(mem'.objs, mem'.options) = Load(mem.objs, mem.options)
           /\ this' = this
           /\ heap' = heap
    ]_vars

\* the caller set the left arm's rotY of its record to 2 after the clown was
\* constructed from the record: the clown's left arm is still at pi/4
C20_Witness ==
  /\ call.op = "write"
  /\ call.args[2] = "rotY"
  /\ pre.call.op = "constructor"
  /\ pre.call.args = <<[legs |-> [length |-> 15000],
                        arms |-> [leftArm |-> [rotY |-> Over(PI, 4)]],
                        head |-> [rotY |-> Over(PI, 4)]]>>
  /\ Load(mem.objs, mem.record).arms.leftArm.rotY = 2000
  /\ Load(mem.objs, mem.options).arms.leftArm.rotY = 785
  /\ this._options.arms.leftArm.rotY = 785
  /\ LeftArmNode.rotation = <<0, 785, Over(PI, 6)>>
  /\ Load(mem.objs, mem.record).head = pre.call.args[1].head

\* C21: on the page, once the clown is made and after the change handler of
\* any control, in any order and number, the clown's resolved parameters equal
\* clownParams field for field, in the model's values and in memory, and the
\* one attached sub-tree is what _createClown makes of clownParams.
C21_PanelInSync ==
  Constructed =>
    /\ Returned
    /\ this._options = Load(mem.objs, mem.record)
    /\ Load(mem.objs, mem.options) = Load(mem.objs, mem.record)
    /\ \A path \in FieldPaths :
         /\ At(this._options, path) = At(Load(mem.objs, mem.record), path)
         /\ At(this._options, path) # Undefined
    /\ Built(this)
    /\ Attached = _createClown(Load(mem.objs, mem.record), this._clown)

\* the legs control was set to 15 and then the head's rotY control to pi/4:
\* clownParams and the clown both have these values and the head is turned
C21_Witness ==
  /\ call.op = "onChange"
  /\ call.args = <<(<<"head">>), "rotY", Over(PI, 4)>>
  /\ pre.call.op = "onChange"
  /\ pre.call.args = <<(<<"legs">>), "length", 15000>>
  /\ Load(mem.objs, mem.record).legs.length = 15000
  /\ Load(mem.objs, mem.record).head.rotY = 785
  /\ this._options.legs.length = 15000
  /\ this._options.head.rotY = 785
  /\ this._options # DefaultOptions
  /\ HeadNode.rotation = <<0, 785, 0>>
  /\ HeadNode.position = <<0, 28500, 0>>
  /\ this._clown = 3

====
